---- MODULE Spec2Model ----
(***************************************************************************)
(* biscuit: take a snapshot of the packages of an ALPM database and save   *)
(* it to a new TOML file (src/main.rs).                                    *)
(*                                                                         *)
(* Spec     one run of the process, from its argument vector to exit().    *)
(* SpecApi  a caller driving the methods of BiscuitSnapshot directly.      *)
(***************************************************************************)
EXTENDS Integers, Sequences, FiniteSets, TLC

VARIABLES
    argv,       \* the process's argument vector, argv[1] the launch name
    pc,         \* position of main
    matches,    \* what opts.parse returned
    opt,        \* name, output_filename, root_path, database_path of main
    snapshot,   \* the BiscuitSnapshot, NoSnapshot before create_with_name
    read,       \* what write_to_snapshot returned
    alpm,       \* the calls of alpm_rs::initialize, in order
    last,       \* the last call of save_to_file, NoCall before the first
    written,    \* path -> the file as the save_to_file that created it left it
    files,      \* the filesystem: path -> file
    files0,     \* the filesystem the run started with
    dirs,       \* path -> state of the directory that holds it
    stderr,     \* what was printed to standard error, in order
    exitCode,   \* <<status>> once the process has exited, <<>> while it runs
    calls       \* the (name, version) arguments of add_package_info, in order

vars == <<argv, pc, matches, opt, snapshot, read, alpm, last, written, files, files0,
          dirs, stderr, exitCode, calls>>

----------------------------------------------------------------------------
(* Bounds *)

MaxArgs == 3        \* arguments after the launch name
MaxPkgs == 2        \* packages the database enumerates
MaxCalls == 2       \* add_package_info calls of an API caller

----------------------------------------------------------------------------
(* Command-line words.  A word is kept with its text and with the shape    *)
(* getopts sees in it: a free word, "--", a cluster of short options       *)
(* ("-" then chars), a long option ("--" then lname, "=" ival when eq).    *)

RECURSIVE Join(_)
Join(cs) == IF cs = <<>> THEN "" ELSE Head(cs) \o Join(Tail(cs))

Free(s) ==
    [kind |-> "free", text |-> s, chars |-> <<>>, lname |-> "", eq |-> FALSE, ival |-> ""]
Short(cs) ==
    [kind |-> "short", text |-> "-" \o Join(cs), chars |-> cs, lname |-> "", eq |-> FALSE, ival |-> ""]
Long(nm) ==
    [kind |-> "long", text |-> "--" \o nm, chars |-> <<>>, lname |-> nm, eq |-> FALSE, ival |-> ""]
LongEq(nm, v) ==
    [kind |-> "long", text |-> "--" \o nm \o "=" \o v, chars |-> <<>>, lname |-> nm, eq |-> TRUE, ival |-> v]
DashDash ==
    [kind |-> "end", text |-> "--", chars |-> <<>>, lname |-> "", eq |-> FALSE, ival |-> ""]
\* a word that is not valid Unicode
NonUnicode ==
    [kind |-> "nonunicode", text |-> "?", chars |-> <<>>, lname |-> "", eq |-> FALSE, ival |-> ""]

LaunchName == Free("biscuit")

Words ==
    { Short(<<"h">>), Long("help"), Short(<<"n">>), Short(<<"n", "a">>),
      LongEq("output", "b"), Short(<<"r", "c">>), Short(<<"d", "e">>),
      Short(<<"x">>), Free("a"), DashDash, NonUnicode }

RECURSIVE SeqsUpTo(_, _)
SeqsUpTo(S, n) ==
    IF n = 0 THEN {<<>>}
    ELSE LET shorter == SeqsUpTo(S, n - 1)
         IN  shorter \cup {Append(s, x) : s \in shorter, x \in S}

ArgVectors == {<<>>} \cup {<<LaunchName>> \o a : a \in SeqsUpTo(Words, MaxArgs)}

----------------------------------------------------------------------------
(* opts.parse: the options main declares, parsed as getopts does.          *)

Opts ==
    { [short |-> "h", long |-> "help",      hasarg |-> FALSE],
      [short |-> "n", long |-> "name",      hasarg |-> TRUE],
      [short |-> "o", long |-> "output",    hasarg |-> TRUE],
      [short |-> "r", long |-> "root-path", hasarg |-> TRUE],
      [short |-> "d", long |-> "db-path",   hasarg |-> TRUE] }

OptIds == {o.short : o \in Opts}

\* the option a name (one char: short, more: long) stands for, "" when none
find_opt(nm) ==
    IF \E o \in Opts : o.short = nm \/ o.long = nm
    THEN (CHOOSE o \in Opts : o.short = nm \/ o.long = nm).short
    ELSE ""

HasArg(id) == (CHOOSE o \in Opts : o.short = id).hasarg

NoVals == [id \in OptIds |-> <<>>]

Given == [given |-> TRUE, val |-> ""]
Val(s) == [given |-> FALSE, val |-> s]

ParseFail(why) == [ok |-> FALSE, fail |-> why, vals |-> NoVals, free |-> <<>>]

\* the chars of a short cluster from position j on: flags are recorded, the
\* first option that takes an argument ends the scan and the rest of the
\* word, when there is one, is its argument
RECURSIVE ScanShort(_, _, _)
ScanShort(cs, j, vals) ==
    IF j > Len(cs)
    THEN [fail |-> "", vals |-> vals, name |-> "", has_i_arg |-> FALSE, i_arg |-> ""]
    ELSE LET id == find_opt(cs[j])
         IN  IF id = ""
             THEN [fail |-> "UnrecognizedOption", vals |-> vals, name |-> "",
                   has_i_arg |-> FALSE, i_arg |-> ""]
             ELSE IF HasArg(id)
             THEN [fail |-> "", vals |-> vals, name |-> cs[j],
                   has_i_arg |-> j < Len(cs),
                   i_arg |-> Join(SubSeq(cs, j + 1, Len(cs)))]
             ELSE ScanShort(cs, j + 1, [vals EXCEPT ![id] = Append(@, Given)])

OptionDuplicated(vals) == \E id \in OptIds : Len(vals[id]) > 1

RECURSIVE ParseFrom(_, _, _, _)
ParseFrom(args, i, vals, free) ==
    IF i > Len(args)
    THEN IF OptionDuplicated(vals)
         THEN ParseFail("OptionDuplicated")
         ELSE [ok |-> TRUE, fail |-> "", vals |-> vals, free |-> free]
    ELSE
    LET cur == args[i] IN
    IF cur.kind = "free"
    THEN ParseFrom(args, i + 1, vals, Append(free, cur.text))
    ELSE IF cur.kind = "end"
    THEN ParseFrom(args, Len(args) + 1, vals,
                   free \o [k \in 1..(Len(args) - i) |-> args[i + k].text])
    ELSE
    LET scan == IF cur.kind = "long"
                THEN [fail |-> "", vals |-> vals, name |-> cur.lname,
                      has_i_arg |-> cur.eq, i_arg |-> cur.ival]
                ELSE ScanShort(cur.chars, 1, vals)
        id == find_opt(scan.name)
    IN  IF scan.fail # "" THEN ParseFail(scan.fail)
        ELSE IF scan.name = "" THEN ParseFrom(args, i + 1, scan.vals, free)
        ELSE IF id = "" THEN ParseFail("UnrecognizedOption")
        ELSE IF ~HasArg(id)
        THEN IF scan.has_i_arg THEN ParseFail("UnexpectedArgument")
             ELSE ParseFrom(args, i + 1, [scan.vals EXCEPT ![id] = Append(@, Given)], free)
        ELSE IF scan.has_i_arg
        THEN ParseFrom(args, i + 1, [scan.vals EXCEPT ![id] = Append(@, Val(scan.i_arg))], free)
        ELSE IF i < Len(args)
        THEN ParseFrom(args, i + 2, [scan.vals EXCEPT ![id] = Append(@, Val(args[i + 1].text))], free)
        ELSE ParseFail("ArgumentMissing")

parse(args) == ParseFrom(args, 1, NoVals, <<>>)

opt_present(m, nm) == m.vals[find_opt(nm)] # <<>>

\* Some(value) of the option's first occurrence, None for a flag or absence
opt_str(m, nm) ==
    LET vs == m.vals[find_opt(nm)]
    IN  IF vs # <<>> /\ ~vs[1].given
        THEN [some |-> TRUE, val |-> vs[1].val]
        ELSE [some |-> FALSE, val |-> ""]

unwrap_or(o, default) == IF o.some THEN o.val ELSE default

Unparsed == ParseFail("unparsed")

----------------------------------------------------------------------------
(* Result<(), Box<dyn Error>> *)

Ok == [ok |-> TRUE, err |-> ""]
Err(e) == [ok |-> FALSE, err |-> e]
NoResult == [ok |-> FALSE, err |-> "not called"]

----------------------------------------------------------------------------
(* BiscuitSnapshot *)

Times == {"2026-01-01T00:00:00Z", "2026-01-01T00:00:01Z"}

NoSnapshot == [name |-> "", datetime |-> "never", package_infos |-> <<>>]

PackageInfo(name, version) == [name |-> name, version |-> version]

create_with_name(name, now) ==
    [name |-> name, datetime |-> now, package_infos |-> <<>>]

\* as add_package_info, but a record already in the list is not added again
add_package_info_dedup(self, name, version) ==
    IF \E i \in 1..Len(self.package_infos) : self.package_infos[i] = PackageInfo(name, version)
    THEN self
    ELSE [self EXCEPT !.package_infos = Append(@, PackageInfo(name, version))]

add_package_info(self, name, version) ==
    [self EXCEPT !.package_infos = Append(@, PackageInfo(name, version))]

\* toml::to_string of the snapshot, line by line: the two top-level values,
\* then one [[package_infos]] table per package (an empty array inline)
RECURSIVE TablesOf(_)
TablesOf(infos) ==
    IF infos = <<>> THEN <<>>
    ELSE << <<"[[package_infos]]", "">>,
            <<"name", Head(infos).name>>,
            <<"version", Head(infos).version>> >> \o TablesOf(Tail(infos))

to_string(self) ==
    << <<"name", self.name>>, <<"datetime", self.datetime>> >>
    \o (IF self.package_infos = <<>>
        THEN << <<"package_infos", "[]">> >>
        ELSE TablesOf(self.package_infos))

\* what a TOML reader recovers from the lines of a complete document
RECURSIVE InfosOf(_)
InfosOf(lines) ==
    IF Len(lines) < 3 \/ lines[1][1] # "[[package_infos]]" THEN <<>>
    ELSE <<PackageInfo(lines[2][2], lines[3][2])>> \o InfosOf(SubSeq(lines, 4, Len(lines)))

from_toml(lines) ==
    [name |-> lines[1][2], datetime |-> lines[2][2],
     package_infos |-> InfosOf(SubSeq(lines, 3, Len(lines)))]

----------------------------------------------------------------------------
(* The filesystem save_to_file writes to *)

NoFile == [exists |-> FALSE, data |-> <<>>]
File(data) == [exists |-> TRUE, data |-> data]
OldFile == File(<< <<"name", "old">> >>)

\* the values -n can take: the word after a bare -n, or the rest of its word
NameValues ==
    {w.text : w \in Words}
    \cup UNION {{Join(SubSeq(w.chars, j + 1, Len(w.chars))) : j \in 1..(Len(w.chars) - 1)}
                : w \in Words}

\* the values -o can take
OutputValues == {w.ival : w \in {x \in Words : x.eq}}

\* every path an output file can have
Paths == OutputValues \cup {v \o ".toml" : v \in NameValues}

\* the paths whose state the environment varies
SpecialPaths == {"a.toml", "b"}

\* "ok": the directory exists and is writable; "missing": it does not exist;
\* "readonly": it exists and the caller may not write to it
DirStates == {"ok", "missing", "readonly"}

FileSystems ==
    LET empty == [files |-> [p \in Paths |-> NoFile], dirs |-> [p \in Paths |-> "ok"]]
    IN  {empty}
        \cup {[empty EXCEPT !.files[p] = OldFile] : p \in SpecialPaths}
        \cup {[empty EXCEPT !.dirs[p] = "missing"] : p \in SpecialPaths}
        \cup {[empty EXCEPT !.dirs[p] = "readonly"] : p \in SpecialPaths}
        \cup {[empty EXCEPT !.files[p] = OldFile, !.dirs[p] = "readonly"] : p \in SpecialPaths}

\* as open_create_new, but with create(true).truncate(true): an existing
\* file is opened and emptied
open_create_truncate(fs, dr, filename) ==
    IF dr[filename] = "missing" THEN [res |-> Err("NotFound"), files |-> fs]
    ELSE IF dr[filename] = "readonly" /\ ~fs[filename].exists
    THEN [res |-> Err("PermissionDenied"), files |-> fs]
    ELSE [res |-> Ok, files |-> [fs EXCEPT ![filename] = File(<<>>)]]

\* as open_create_new, but the directory's permissions are not an obstacle
open_create_new_any_dir(fs, dr, filename) ==
    IF dr[filename] = "missing" THEN [res |-> Err("NotFound"), files |-> fs]
    ELSE IF fs[filename].exists THEN [res |-> Err("AlreadyExists"), files |-> fs]
    ELSE [res |-> Ok, files |-> [fs EXCEPT ![filename] = File(<<>>)]]

\* OpenOptions::new().write(true).create_new(true).open(filename)
open_create_new(fs, dr, filename) ==
    IF dr[filename] = "missing" THEN [res |-> Err("NotFound"), files |-> fs]
    ELSE IF fs[filename].exists THEN [res |-> Err("AlreadyExists"), files |-> fs]
    ELSE IF dr[filename] = "readonly" THEN [res |-> Err("PermissionDenied"), files |-> fs]
    ELSE [res |-> Ok, files |-> [fs EXCEPT ![filename] = File(<<>>)]]

\* out_file.write_all(bytes): all the lines, or an error after the first n
write_all(fs, filename, lines, wr) ==
    IF wr = "ok"
    THEN [res |-> Ok, files |-> [fs EXCEPT ![filename] = File(lines)]]
    ELSE LET n == IF wr = "none" THEN 0 ELSE 1
         IN  [res |-> Err("WriteFailed"),
              files |-> [fs EXCEPT ![filename] = File(SubSeq(lines, 1, n))]]

\* what the environment decides in one save_to_file: whether toml::to_string
\* succeeds, and how far write_all gets
SaveEnvs ==
    {[ser |-> "err", wr |-> "none"]} \cup [ser : {"ok"}, wr : {"ok", "none", "part"}]

\* as save_to_file, but the file is opened before the snapshot is serialized
save_to_file_open_first(self, filename, fs, dr, env) ==
    LET opened == open_create_new(fs, dr, filename)
    IN  IF ~opened.res.ok
        THEN [res |-> opened.res, files |-> opened.files, self |-> self,
              events |-> <<"open">>]
        ELSE IF env.ser = "err"
        THEN [res |-> Err("SerializeFailed"), files |-> opened.files, self |-> self,
              events |-> <<"open", "to_string">>]
        ELSE LET wrote == write_all(opened.files, filename, to_string(self), env.wr)
             IN  [res |-> wrote.res, files |-> wrote.files, self |-> self,
                  events |-> <<"open", "to_string", "write_all">>]

\* events: the fallible calls made, in order
save_to_file(self, filename, fs, dr, env) ==
    IF env.ser = "err"
    THEN [res |-> Err("SerializeFailed"), files |-> fs, self |-> self,
          events |-> <<"to_string">>]
    ELSE
    LET toml == to_string(self)
        opened == open_create_new(fs, dr, filename)
    IN  IF ~opened.res.ok
        THEN [res |-> opened.res, files |-> opened.files, self |-> self,
              events |-> <<"to_string", "open">>]
        ELSE LET wrote == write_all(opened.files, filename, toml, env.wr)
             IN  [res |-> wrote.res, files |-> wrote.files, self |-> self,
                  events |-> <<"to_string", "open", "write_all">>]

----------------------------------------------------------------------------
(* The package database *)

Packages == {PackageInfo("bash", "5.2.15-1"), PackageInfo("coreutils", "9.3-1")}

\* what alpm_rs::initialize and the local database's pkgcache give
AlpmStates ==
    {[res |-> Err(e), pkgs |-> <<>>] : e \in {"DbOpen", "DbVersion"}}
    \cup {[res |-> Ok, pkgs |-> ps] : ps \in SeqsUpTo(Packages, MaxPkgs)}

\* as AddAll, but a package seen before is skipped
RECURSIVE AddAllDedup(_, _)
AddAllDedup(s, pkgs) ==
    IF pkgs = <<>> THEN s
    ELSE AddAllDedup(add_package_info_dedup(s, Head(pkgs).name, Head(pkgs).version), Tail(pkgs))

RECURSIVE AddAll(_, _)
AddAll(s, pkgs) ==
    IF pkgs = <<>> THEN s
    ELSE AddAll(add_package_info(s, Head(pkgs).name, Head(pkgs).version), Tail(pkgs))

\* as write_to_snapshot, but a database that does not open counts as empty
write_to_snapshot_lenient(s, root_path, database_path, db) ==
    IF ~db.res.ok
    THEN [res |-> Ok, snapshot |-> s]
    ELSE [res |-> Ok, snapshot |-> AddAll(s, db.pkgs)]

write_to_snapshot(s, root_path, database_path, db) ==
    IF ~db.res.ok
    THEN [res |-> db.res, snapshot |-> s]
    ELSE [res |-> Ok, snapshot |-> AddAll(s, db.pkgs)]

----------------------------------------------------------------------------
(* One call of save_to_file, as the history variables keep it *)

NoCall ==
    [called |-> FALSE, path |-> "", env |-> [ser |-> "ok", wr |-> "ok"], res |-> NoResult,
     events |-> <<>>, before |-> NoFile, after |-> NoFile, others_same |-> TRUE,
     self_same |-> TRUE]

SaveCall(self, filename, env, r, fs) ==
    [called |-> TRUE, path |-> filename, env |-> env, res |-> r.res, events |-> r.events,
     before |-> fs[filename], after |-> r.files[filename],
     others_same |-> \A q \in (DOMAIN fs) \ {filename} : r.files[q] = fs[q],
     self_same |-> r.self = self]

\* the file a call created is remembered as that call left it
Written(w, filename, r, fs) ==
    IF ~fs[filename].exists /\ r.files[filename].exists
    THEN [w EXCEPT ![filename] = r.files[filename]]
    ELSE w

----------------------------------------------------------------------------
(* main *)

show_usage(err) == Append(err, "usage")

NoOpt == [name |-> "", output_filename |-> "", root_path |-> "", database_path |-> ""]

Init ==
    /\ argv \in ArgVectors
    /\ \E f \in FileSystems : files = f.files /\ files0 = f.files /\ dirs = f.dirs
    /\ pc = "args"
    /\ matches = Unparsed
    /\ opt = NoOpt
    /\ snapshot = NoSnapshot
    /\ read = NoResult
    /\ alpm = <<>>
    /\ last = NoCall
    /\ written = [p \in Paths |-> NoFile]
    /\ stderr = <<>>
    /\ exitCode = <<>>
    /\ calls = <<>>

\* env::args().collect() panics on an argument that is not valid Unicode,
\* args[0] on an empty vector; a panic ends the process with status 101
main_args ==
    /\ pc = "args"
    /\ IF argv = <<>> \/ \E i \in 1..Len(argv) : argv[i].kind = "nonunicode"
       THEN /\ pc' = "exit"
            /\ exitCode' = <<101>>
            /\ stderr' = Append(stderr, "panic")
       ELSE /\ pc' = "parse"
            /\ UNCHANGED <<exitCode, stderr>>
    /\ UNCHANGED <<argv, matches, opt, snapshot, read, alpm, last, written, files, files0, dirs, calls>>

main_parse ==
    /\ pc = "parse"
    /\ LET m == parse(Tail(argv))
       IN  /\ matches' = m
           /\ IF m.ok
              THEN /\ pc' = "help"
                   /\ UNCHANGED <<exitCode, stderr>>
              ELSE /\ pc' = "exit"
                   /\ stderr' = show_usage(Append(stderr, "Bad arguments"))
                   /\ exitCode' = <<1>>
    /\ UNCHANGED <<argv, opt, snapshot, read, alpm, last, written, files, files0, dirs, calls>>

\* as main_help, but the required name is looked for before the help flag
main_help_after_name ==
    /\ pc = "help"
    /\ IF ~opt_present(matches, "n")
       THEN /\ pc' = "exit"
            /\ stderr' = show_usage(Append(stderr, "Missing required argument: name"))
            /\ exitCode' = <<1>>
       ELSE IF opt_present(matches, "h")
       THEN /\ pc' = "exit"
            /\ stderr' = show_usage(stderr)
            /\ exitCode' = <<0>>
       ELSE /\ pc' = "name"
            /\ UNCHANGED <<exitCode, stderr>>
    /\ UNCHANGED <<argv, matches, opt, snapshot, read, alpm, last, written, files, files0, dirs, calls>>

main_help ==
    /\ pc = "help"
    /\ IF opt_present(matches, "h")
       THEN /\ pc' = "exit"
            /\ stderr' = show_usage(stderr)
            /\ exitCode' = <<0>>
       ELSE /\ pc' = "name"
            /\ UNCHANGED <<exitCode, stderr>>
    /\ UNCHANGED <<argv, matches, opt, snapshot, read, alpm, last, written, files, files0, dirs, calls>>

\* as main_name, but a missing name is reported and the run goes on
main_name_warn_only ==
    /\ pc = "name"
    /\ pc' = "create"
    /\ IF ~opt_present(matches, "n")
       THEN stderr' = show_usage(Append(stderr, "Missing required argument: name"))
       ELSE UNCHANGED stderr
    /\ UNCHANGED <<argv, matches, opt, snapshot, read, alpm, last, written, files, files0, dirs, exitCode, calls>>

main_name ==
    /\ pc = "name"
    /\ IF ~opt_present(matches, "n")
       THEN /\ pc' = "exit"
            /\ stderr' = show_usage(Append(stderr, "Missing required argument: name"))
            /\ exitCode' = <<1>>
       ELSE /\ pc' = "create"
            /\ UNCHANGED <<exitCode, stderr>>
    /\ UNCHANGED <<argv, matches, opt, snapshot, read, alpm, last, written, files, files0, dirs, calls>>

\* as resolve, but -r and -d are read the wrong way round
resolve_swapped(m) ==
    LET name == opt_str(m, "n").val
    IN  [name |-> name,
         output_filename |-> unwrap_or(opt_str(m, "o"), name \o ".toml"),
         root_path |-> unwrap_or(opt_str(m, "d"), "/"),
         database_path |-> unwrap_or(opt_str(m, "r"), "/var/lib/pacman")]

resolve(m) ==
    LET name == opt_str(m, "n").val
    IN  [name |-> name,
         output_filename |-> unwrap_or(opt_str(m, "o"), name \o ".toml"),
         root_path |-> unwrap_or(opt_str(m, "r"), "/"),
         database_path |-> unwrap_or(opt_str(m, "d"), "/var/lib/pacman")]

main_create ==
    /\ pc = "create"
    /\ opt' = resolve(matches)
    /\ \E now \in Times : snapshot' = create_with_name(opt'.name, now)
    /\ pc' = "read"
    /\ UNCHANGED <<argv, matches, read, alpm, last, written, files, files0, dirs, stderr, exitCode, calls>>

main_read ==
    /\ pc = "read"
    /\ \E db \in AlpmStates :
         LET r == write_to_snapshot(snapshot, opt.root_path, opt.database_path, db)
         IN  /\ alpm' = Append(alpm, [root |-> opt.root_path, db |-> opt.database_path,
                                      res |-> db.res, pkgs |-> db.pkgs])
             /\ read' = r.res
             /\ snapshot' = r.snapshot
             /\ IF r.res.ok
                THEN /\ pc' = "save"
                     /\ UNCHANGED <<exitCode, stderr>>
                ELSE /\ pc' = "exit"
                     /\ stderr' = Append(stderr, "Something went wrong while reading the ALPM database")
                     /\ exitCode' = <<1>>
    /\ UNCHANGED <<argv, matches, opt, last, written, files, files0, dirs, calls>>

main_save ==
    /\ pc = "save"
    /\ \E env \in SaveEnvs :
         LET r == save_to_file(snapshot, opt.output_filename, files, dirs, env)
         IN  /\ last' = SaveCall(snapshot, opt.output_filename, env, r, files)
             /\ written' = Written(written, opt.output_filename, r, files)
             /\ files' = r.files
             /\ snapshot' = r.self
             /\ pc' = "exit"
             /\ IF r.res.ok
                THEN /\ exitCode' = <<0>>
                     /\ UNCHANGED stderr
                ELSE /\ exitCode' = <<1>>
                     /\ stderr' = Append(stderr, "Something went wrong while saving the snapshot to the file")
    /\ UNCHANGED <<argv, matches, opt, read, alpm, files0, dirs, calls>>

Next ==
    \/ main_args
    \/ main_parse
    \/ main_help
    \/ main_name
    \/ main_create
    \/ main_read
    \/ main_save

Spec == Init /\ [][Next]_vars

----------------------------------------------------------------------------
(* A caller of BiscuitSnapshot's methods *)

SnapshotNames == {"s"}
ApiInfos == {PackageInfo("", ""), PackageInfo("bash", "5.2.15-1")}

InitApi ==
    /\ argv = <<>>
    /\ \E f \in FileSystems : files = f.files /\ files0 = f.files /\ dirs = f.dirs
    /\ pc = "api"
    /\ matches = Unparsed
    /\ opt = NoOpt
    /\ snapshot = NoSnapshot
    /\ read = NoResult
    /\ alpm = <<>>
    /\ last = NoCall
    /\ written = [p \in Paths |-> NoFile]
    /\ stderr = <<>>
    /\ exitCode = <<>>
    /\ calls = <<>>

api_create_with_name ==
    /\ pc = "api"
    /\ \E name \in SnapshotNames, now \in Times : snapshot' = create_with_name(name, now)
    /\ calls' = <<>>
    /\ UNCHANGED <<argv, pc, matches, opt, read, alpm, last, written, files, files0, dirs, stderr, exitCode>>

api_add_package_info ==
    /\ pc = "api"
    /\ snapshot # NoSnapshot
    /\ Len(calls) < MaxCalls
    /\ \E p \in ApiInfos :
         /\ snapshot' = add_package_info(snapshot, p.name, p.version)
         /\ calls' = Append(calls, <<p.name, p.version>>)
    /\ UNCHANGED <<argv, pc, matches, opt, read, alpm, last, written, files, files0, dirs, stderr, exitCode>>

api_save_to_file ==
    /\ pc = "api"
    /\ snapshot # NoSnapshot
    /\ \E filename \in SpecialPaths, env \in SaveEnvs :
         LET r == save_to_file(snapshot, filename, files, dirs, env)
         IN  /\ last' = SaveCall(snapshot, filename, env, r, files)
             /\ written' = Written(written, filename, r, files)
             /\ files' = r.files
             /\ snapshot' = r.self
    /\ UNCHANGED <<argv, pc, matches, opt, read, alpm, files0, dirs, stderr, exitCode, calls>>

NextApi ==
    \/ api_create_with_name
    \/ api_add_package_info
    \/ api_save_to_file

SpecApi == InitApi /\ [][NextApi]_vars

----------------------------------------------------------------------------
(* Properties *)

Exited == pc = "exit"
Parsed == matches # Unparsed
HelpGiven == Parsed /\ matches.ok /\ matches.vals["h"] # <<>>
NameGiven == Parsed /\ matches.ok /\ matches.vals["n"] # <<>>
NoIO ==
    /\ snapshot = NoSnapshot
    /\ alpm = <<>>
    /\ ~last.called
    /\ files = files0
Complete == [ser |-> "ok", wr |-> "ok"]

\* C1, as claimed: a save_to_file to an absent path succeeds and creates the
\* file; a save_to_file to a path that holds a file fails and leaves the
\* file as it was, so the file stays as the save that created it left it.
C1_FirstSaveSucceeds ==
    /\ last.called /\ ~last.before.exists => last.res.ok /\ last.after.exists
    /\ last.called /\ last.before.exists => ~last.res.ok /\ last.after = last.before
    /\ \A p \in Paths : written[p].exists => files[p] = written[p]

\* C1, amended: a save_to_file to an absent path in an existing, writable
\* directory succeeds and creates the file when neither the serialization
\* nor the write fails; a save_to_file to a path that holds a file fails,
\* changes no file, and every file a save_to_file created stays exactly as
\* that call left it.
C1_NeverOverwrites ==
    /\ last.called /\ ~last.before.exists /\ dirs[last.path] = "ok" /\ last.env = Complete
         => last.res.ok /\ last.after.exists /\ written[last.path] = last.after
    /\ last.called /\ last.before.exists
         => ~last.res.ok /\ last.after = last.before /\ last.others_same
    /\ \A p \in Paths : written[p].exists => files[p] = written[p]

\* a second save_to_file, from a snapshot with other records, to a path that
\* an earlier save_to_file created and wrote in full
C1_Witness ==
    /\ last.called /\ last.before.exists /\ last.env = Complete
    /\ written[last.path] = last.before
    /\ Len(last.before.data) >= 3
    /\ from_toml(last.before.data).package_infos # snapshot.package_infos

\* C2: when alpm initialize fails, write_to_snapshot returns that error, no
\* record is added, save_to_file is not called, no file changes and the
\* process exits with status 1.
C2_DatabaseError ==
    alpm # <<>> /\ ~alpm[1].res.ok =>
        /\ read = alpm[1].res
        /\ snapshot.package_infos = <<>>
        /\ ~last.called
        /\ files = files0
        /\ exitCode = <<1>>
        /\ Exited

C2_Witness ==
    Exited /\ alpm # <<>> /\ alpm[1].res = Err("DbOpen") /\ ~files0[opt.output_filename].exists

\* a word that asks for help: -h or --help
IsHelpWord(w) == w.text \in {"-h", "--help"}
HelpOnCommandLine == \E i \in 2..Len(argv) : IsHelpWord(argv[i])
AllUnicode == argv # <<>> /\ \A i \in 1..Len(argv) : argv[i].kind # "nonunicode"

\* C3, as claimed (on argument vectors of valid Unicode words): with -h on
\* the command line, whatever accompanies it, the process prints usage, exits
\* with status 0, opens no database and writes no file.
C3_HelpAlwaysWins ==
    Exited /\ AllUnicode /\ HelpOnCommandLine =>
        /\ exitCode = <<0>>
        /\ stderr = <<"usage">>
        /\ NoIO

\* C3, amended: when the arguments parse and -h is among the parsed options,
\* with or without -n or any other option, the process prints usage, exits
\* with status 0, opens no database and writes no file; when the arguments
\* do not parse, -h among them or not, the process prints the parser's error
\* and usage and exits with status 1, again without database or file access.
C3_HelpAfterParse ==
    /\ HelpGiven => NoIO /\ pc \in {"help", "exit"}
    /\ Exited /\ HelpGiven => exitCode = <<0>> /\ stderr = <<"usage">>
    /\ Parsed /\ ~matches.ok =>
         NoIO /\ Exited /\ exitCode = <<1>> /\ stderr = <<"Bad arguments", "usage">>

\* -h parsed together with -n and -o
C3_Witness ==
    Exited /\ HelpGiven /\ NameGiven /\ matches.vals["o"] # <<>>

\* C4: when the arguments parse and neither -h nor -n is given, the process
\* exits with status 1 without constructing a snapshot, opening the database
\* or creating a file.
C4_MissingName ==
    Parsed /\ matches.ok /\ ~HelpGiven /\ ~NameGiven =>
        /\ NoIO
        /\ pc \in {"help", "name", "exit"}
        /\ Exited => exitCode = <<1>> /\ stderr = <<"Missing required argument: name", "usage">>

\* no -n, but other options that would otherwise decide the paths
C4_Witness ==
    /\ Exited /\ Parsed /\ matches.ok /\ ~HelpGiven /\ ~NameGiven
    /\ matches.vals["o"] # <<>> /\ matches.vals["r"] # <<>>

\* C5: every run ends with status 0 or 1: 0 exactly when help was asked for
\* or when the database read and the save both succeeded, 1 exactly on a
\* parse error, a missing -n, a database failure or a save failure.
C5_ExitCodes ==
    Exited =>
        /\ exitCode \in {<<0>>, <<1>>}
        /\ exitCode = <<0>> <=> \/ HelpGiven
                                \/ read.ok /\ last.called /\ last.res.ok
        /\ exitCode = <<1>> <=> \/ Parsed /\ ~matches.ok
                                \/ Parsed /\ matches.ok /\ ~HelpGiven /\ ~NameGiven
                                \/ alpm # <<>> /\ ~read.ok
                                \/ last.called /\ ~last.res.ok

\* C6: the record list is append-only: after create_with_name it is empty,
\* after any add_package_info calls it is the (name, version) pairs of the
\* calls in call order, fields unchanged, empty strings and duplicates
\* included; each call leaves the earlier records, the name and the datetime
\* as they were.
C6_AppendOnly ==
    /\ [](/\ Len(snapshot.package_infos) = Len(calls)
          /\ \A i \in 1..Len(calls) :
               /\ snapshot.package_infos[i].name = calls[i][1]
               /\ snapshot.package_infos[i].version = calls[i][2])
    /\ [][Len(calls') = Len(calls) + 1 =>
            /\ snapshot'.name = snapshot.name
            /\ snapshot'.datetime = snapshot.datetime
            /\ SubSeq(snapshot'.package_infos, 1, Len(calls)) = snapshot.package_infos]_vars

\* the same record, with empty fields, added twice
C6_Witness ==
    /\ Len(calls) >= 2 /\ calls[1] = <<"", "">> /\ calls[2] = <<"", "">>
    /\ snapshot.package_infos = <<PackageInfo("", ""), PackageInfo("", "")>>

\* C7: on a successful run the file holds, as package_infos, exactly the
\* (name, version) pairs the database enumerated, one per package and in
\* its order, and as name the -n value; the list is empty for no packages.
C7_FileHoldsEnumeration ==
    Exited /\ exitCode = <<0>> /\ last.called =>
        LET doc == from_toml(files[opt.output_filename].data)
        IN  /\ doc.package_infos = alpm[1].pkgs
            /\ Len(doc.package_infos) = Len(alpm[1].pkgs)
            /\ doc.name = matches.vals["n"][1].val
            /\ doc.datetime \in Times

\* a successful run over a database that lists a package twice
C7_Witness ==
    /\ Exited /\ exitCode = <<0>> /\ last.called
    /\ Len(alpm[1].pkgs) = 2 /\ alpm[1].pkgs[1] = alpm[1].pkgs[2]

\* C8: a save_to_file to a path whose directory does not exist or is not
\* writable returns an error and changes no file: no file is created at the
\* path.
C8_BadDirectory ==
    last.called /\ dirs[last.path] \in {"missing", "readonly"} =>
        /\ ~last.res.ok
        /\ last.after = last.before
        /\ last.others_same
        /\ files[last.path] = files0[last.path]

\* a save that fails on nothing but the directory's permissions
C8_Witness ==
    /\ last.called /\ dirs[last.path] = "readonly" /\ ~last.before.exists
    /\ last.env = Complete /\ last.res = Err("PermissionDenied")

\* C9: each default is resolved on its own: the output path is the -o value,
\* or "<name>.toml" without -o; the root path is the -r value, or "/"; the
\* database path is the -d value, or "/var/lib/pacman".
C9_Defaults ==
    LET given(id) == matches.vals[id] # <<>>
        value(id) == matches.vals[id][1].val
        output == IF given("o") THEN value("o") ELSE value("n") \o ".toml"
        root == IF given("r") THEN value("r") ELSE "/"
        db == IF given("d") THEN value("d") ELSE "/var/lib/pacman"
    IN  /\ opt # NoOpt =>
             /\ opt.name = value("n")
             /\ opt.output_filename = output
             /\ opt.root_path = root
             /\ opt.database_path = db
        /\ alpm # <<>> => alpm[1].root = root /\ alpm[1].db = db
        /\ last.called => last.path = output

\* -r given, -o and -d left to their defaults, and the file written
C9_Witness ==
    /\ Exited /\ last.called /\ alpm # <<>>
    /\ matches.vals["r"] # <<>> /\ matches.vals["o"] = <<>> /\ matches.vals["d"] = <<>>

\* C10: save_to_file serializes before it opens the file: when the
\* serialization fails nothing is opened or created; a failed call changes a
\* file only when the write after a successful create-new open fails; no
\* call changes the snapshot.
C10_SerializeBeforeOpen ==
    last.called =>
        /\ last.self_same
        /\ last.others_same
        /\ last.events \in {<<"to_string">>, <<"to_string", "open">>,
                            <<"to_string", "open", "write_all">>}
        /\ last.env.ser = "err" =>
             ~last.res.ok /\ last.events = <<"to_string">> /\ last.after = last.before
        /\ ~last.res.ok /\ last.after # last.before =>
             /\ last.events = <<"to_string", "open", "write_all">>
             /\ ~last.before.exists /\ last.after.exists
             /\ last.res = Err("WriteFailed")

\* a serialization failure on a path the open would have created
C10_Witness ==
    /\ last.called /\ last.env.ser = "err"
    /\ ~last.before.exists /\ dirs[last.path] = "ok"

====
